---------------------------- MODULE Spec2Model ----------------------------
(***************************************************************************)
(* msibi-flow: the signac data space set up by src/init.py and the          *)
(* `optimize` operation of src/project.py.                                  *)
(*                                                                          *)
(* Python values are written as strings of their repr ("True", "None",      *)
(* "5.0"), dictionaries as functions whose DOMAIN is the set of keys, and   *)
(* lists as sequences.  A statepoint list that may be None (bonds, angles)  *)
(* is a record [isNone, items].                                             *)
(***************************************************************************)
EXTENDS Naturals, Sequences, FiniteSets, TLC

VARIABLES
    parameters,          \* init.py: the OrderedDict built by get_parameters
    mainPc,              \* init.py: position of main()
    param_names,         \* init.py: local of main()
    param_combinations,  \* init.py: local of main()
    idx,                 \* init.py: position of the for loop of main()
    mainRuns,            \* number of completed or started runs of main()
    store,               \* signac workspace: the jobs that exist
    inits,               \* signac workspace: times each job directory was made
    summary,             \* signac_statepoints.json at the project root
    writes,              \* write_statepoints() calls of the current main()
    doc,                 \* job.doc of every job
    pc,                  \* project.py: position of optimize(job)
    i,                   \* project.py: position of the current for loop
    opt,                 \* project.py: the MSIBI object of the run
    potential,           \* project.py: local `potential`
    new_angle,           \* project.py: local `new_angle`
    runner,              \* status of opt.optimize_pairs in the run
    exits,               \* how the runs of optimize on the job ended, in order
    wrote,               \* document keys written by the run
    runs                 \* number of runs of optimize started on each job

mainVars == <<parameters, mainPc, param_names, param_combinations, idx,
              mainRuns, store, inits, summary, writes>>
optVars == <<doc, pc, i, opt, potential, new_angle, runner, exits,
             wrote, runs>>
vars == <<mainVars, optVars>>

----------------------------------------------------------------------------
(* Bounds of the model. *)

\* runs of main() in one behaviour
MaxMainRuns == 2
\* runs of optimize, on all jobs together, in one behaviour
MaxRuns == 2
\* parameters of a generic parameter table
MaxParams == 2
\* candidate values of one parameter of a generic parameter table
MaxCandidates == 2

----------------------------------------------------------------------------
(* Python helpers. *)

None == "None"
PyTrue == "True"
PyFalse == "False"

\* bool(v) for the values a document holds
Truthy(v) == v \notin {None, PyFalse}

\* an empty dict {}
EmptyDict == [k \in {} |-> ""]

\* d[k] = v
DictSet(d, k, v) == (k :> v) @@ d

\* d.get(k)
DictGet(d, k) == IF k \in DOMAIN d THEN d[k] ELSE None

RECURSIVE Concat(_)
\* the concatenation of a sequence of sequences
Concat(ss) == IF Len(ss) = 0 THEN <<>> ELSE Head(ss) \o Concat(Tail(ss))

\* zip(*lists) in place of itertools.product(*lists)
productZip(lists) ==
    LET k == Len(lists)
        n == IF k = 0 THEN 0
             ELSE CHOOSE m \in {Len(lists[a]) : a \in 1..k} :
                      \A a \in 1..k : m <= Len(lists[a])
    IN  [c \in 1..n |-> [a \in 1..k |-> lists[a][c]]]

RECURSIVE product(_)
\* itertools.product(*lists): the last list varies fastest
product(lists) ==
    IF Len(lists) = 0 THEN << <<>> >>
    ELSE LET rest == product(Tail(lists))
             first == Head(lists)
         IN  Concat([a \in 1..Len(first) |->
                        [b \in 1..Len(rest) |-> <<first[a]>> \o rest[b]]])

\* dict(zip(names, params)): a later duplicate key overrides an earlier one
DictZip(names, params) ==
    LET n == IF Len(names) < Len(params) THEN Len(names) ELSE Len(params)
        last(k) == CHOOSE a \in 1..n :
                       names[a] = k /\ \A b \in 1..n : names[b] = k => b <= a
    IN  [k \in {names[a] : a \in 1..n} |-> params[last(k)]]

----------------------------------------------------------------------------
(* init.py: get_parameters. *)

Placeholders == <<EmptyDict, EmptyDict, EmptyDict>>

\* the parameters as the repository ships them
ShippedParameters ==
    << [name |-> "potential_cutoff", values |-> <<"5.0">>],
       [name |-> "num_rdf_points", values |-> <<"101">>],
       [name |-> "num_rdf_frames", values |-> <<"5">>],
       [name |-> "smooth_rdf", values |-> <<"True">>],
       [name |-> "rdf_exclude_bonded", values |-> <<"False">>],
       [name |-> "r_switch", values |-> <<"None">>],
       [name |-> "integrator", values |-> <<>>],
       [name |-> "integrator_kwargs", values |-> <<>>],
       [name |-> "dt", values |-> <<"0.001">>],
       [name |-> "gsd_period", values |-> <<"1000">>],
       [name |-> "initial_potential", values |-> <<"mie">>],
       [name |-> "iterations", values |-> <<"20">>],
       [name |-> "n_steps", values |-> <<"1e6">>],
       [name |-> "states", values |-> <<Placeholders>>],
       [name |-> "pairs", values |-> <<Placeholders>>],
       [name |-> "bonds",
        values |-> <<[isNone |-> FALSE, items |-> Placeholders]>>],
       [name |-> "angles",
        values |-> <<[isNone |-> FALSE, items |-> Placeholders]>>] >>

\* list(parameters.keys())
Keys(table) == [a \in 1..Len(table) |-> table[a].name]

\* list(parameters.values())
Values(table) == [a \in 1..Len(table) |-> table[a].values]

\* get_parameters(): the names and the combinations of the table
get_parameters(table) ==
    [names |-> Keys(table), combinations |-> product(Values(table))]

\* the statepoints main() opens for a table: the jobs it can create
JobsOf(table) ==
    LET g == get_parameters(table)
    IN  {DictZip(g.names, g.combinations[c]) :
            c \in 1..Len(g.combinations)}

\* the jobs of the data space: every per-job variable is a function on them
Jobs == DOMAIN doc


----------------------------------------------------------------------------
(* The parameter tables of the model. *)

GenericNames == <<"potential_cutoff", "dt", "iterations", "n_steps">>
GenericValues == {"1", "2"}

\* candidate lists of up to MaxCandidates values, duplicates included
CandidateLists == UNION {[1..n -> GenericValues] : n \in 0..MaxCandidates}

\* every table of up to MaxParams parameters over the candidate lists
GenericTables ==
    UNION {{[a \in 1..k |-> [name |-> GenericNames[a], values |-> f[a]]] :
               f \in [1..k -> CandidateLists]} : k \in 0..MaxParams}

----------------------------------------------------------------------------
(* project.py: the locals of optimize(job). *)

\* `opt` before line 64 assigns it
NoOpt == [built |-> FALSE, states |-> <<>>, pairs |-> <<>>, bonds |-> <<>>,
          angles |-> <<>>, dr |-> None, pot_r |-> None]

\* MSIBI(...), lines 64-71: an optimizer with nothing added and no results
NewOpt == [built |-> TRUE, states |-> <<>>, pairs |-> <<>>, bonds |-> <<>>,
           angles |-> <<>>, dr |-> None, pot_r |-> None]

\* `potential` before line 93, 96 or 98 assigns it
Unbound == [family |-> "unbound", arg |-> None]

\* `new_angle` before line 121 assigns it
NoAngle == [bound |-> FALSE, type1 |-> None, type2 |-> None, type3 |-> None,
            harmonic |-> EmptyDict]

----------------------------------------------------------------------------
(* init.py: main. *)

\* the state before main() or optimize ran on the data space of `table`
InitOf(table) ==
    /\ parameters = table
    /\ mainPc = "idle"
    /\ param_names = <<>>
    /\ param_combinations = <<>>
    /\ idx = 0
    /\ mainRuns = 0
    /\ store = {}
    /\ inits = [j \in JobsOf(table) |-> 0]
    /\ summary = {}
    /\ writes = 0
    /\ doc = [j \in JobsOf(table) |-> EmptyDict]
    /\ pc = [j \in JobsOf(table) |-> "idle"]
    /\ i = [j \in JobsOf(table) |-> 0]
    /\ opt = [j \in JobsOf(table) |-> NoOpt]
    /\ potential = [j \in JobsOf(table) |-> Unbound]
    /\ new_angle = [j \in JobsOf(table) |-> NoAngle]
    /\ runner = [j \in JobsOf(table) |-> "not_called"]
    /\ exits = [j \in JobsOf(table) |-> <<>>]
    /\ wrote = [j \in JobsOf(table) |-> {}]
    /\ runs = [j \in JobsOf(table) |-> 0]

\* main(), lines 61-62: the project is opened and the parameters expanded
MainStart ==
    /\ mainPc = "idle"
    /\ mainRuns < MaxMainRuns
    /\ param_names' = get_parameters(parameters).names
    /\ param_combinations' = get_parameters(parameters).combinations
    /\ idx' = 1
    /\ writes' = 0
    /\ mainRuns' = mainRuns + 1
    /\ mainPc' = "loop"
    /\ UNCHANGED <<parameters, store, inits, summary, optVars>>

\* job.init() that makes the workspace directory again for a job that exists
JobInitForce(sp) ==
    /\ store' = store \cup {sp}
    /\ inits' = [inits EXCEPT ![sp] = @ + 1]
    /\ doc' = [doc EXCEPT ![sp] = EmptyDict]

\* job.init(): the workspace directory is made unless the job exists
JobInit(sp) ==
    IF sp \in store
    THEN UNCHANGED <<store, inits, doc>>
    ELSE /\ store' = store \cup {sp}
         /\ inits' = [inits EXCEPT ![sp] = @ + 1]
         /\ doc' = [doc EXCEPT ![sp] = EmptyDict]

\* line 69 indented into the loop: the summary is written in every pass
MainInitJobWrites ==
    /\ mainPc = "loop"
    /\ idx <= Len(param_combinations)
    /\ LET parent_statepoint == DictZip(param_names, param_combinations[idx])
       IN  JobInit(parent_statepoint)
    /\ idx' = idx + 1
    /\ summary' = summary \cup store'
    /\ writes' = writes + 1
    /\ UNCHANGED <<parameters, mainPc, param_names, param_combinations,
                   mainRuns, pc, i, opt, potential,
                   new_angle, runner, exits, wrote, runs>>

\* main(), lines 64-67: one pass of the loop over param_combinations
MainInitJob ==
    /\ mainPc = "loop"
    /\ idx <= Len(param_combinations)
    /\ LET parent_statepoint == DictZip(param_names, param_combinations[idx])
       IN  JobInit(parent_statepoint)
    /\ idx' = idx + 1
    /\ UNCHANGED <<parameters, mainPc, param_names, param_combinations,
                   mainRuns, summary, writes, pc, i, opt, potential,
                   new_angle, runner, exits, wrote, runs>>

\* main(), line 69: project.write_statepoints() after the loop
MainWrite ==
    /\ mainPc = "loop"
    /\ idx > Len(param_combinations)
    /\ summary' = summary \cup store
    /\ writes' = writes + 1
    /\ mainPc' = "idle"
    /\ UNCHANGED <<parameters, param_names, param_combinations, idx,
                   mainRuns, store, inits, optVars>>

MainNext == MainStart \/ MainInitJob \/ MainWrite

InitGeneric ==
    \/ \E table \in GenericTables : InitOf(table)
    \/ InitOf(ShippedParameters)

\* init.py run on a generic or the shipped parameter table
SpecInit == InitGeneric /\ [][MainNext]_vars

----------------------------------------------------------------------------
(* project.py: the values optimize(job) works on. *)

\* pair["potential"], line 93: the potential the entry supplies
Explicit(p) == [family |-> "explicit", arg |-> p]

\* mie(job.sp.potential_cutoff, 1.0, 1.0), line 98
mie(cutoff) == [family |-> "mie", arg |-> cutoff]

\* morse(opt.pot_r, 1.0, 1.0), line 96
morse(pot_r) == [family |-> "morse", arg |-> pot_r]

\* the statepoint keys the MSIBI constructor call reads, lines 65-70
ConstructorKeys == {"integrator", "dt", "gsd_period", "iterations", "n_steps"}

\* the statepoint keys the optimize_pairs call reads, lines 130-136
CallKeys == {"num_rdf_frames", "potential_cutoff", "r_min", "r_switch",
             "num_rdf_points", "smooth_rdf", "rdf_exclude_bonded"}

\* "done" in job.doc in place of line 50: the presence of the key
completedKeyPresent(j) == IF "done" \in DOMAIN doc[j] THEN PyTrue ELSE None

\* @MyProject.label completed(job), lines 48-50
completed(j) == DictGet(doc[j], "done")

\* @MyProject.post(completed), line 56: the workflow runs optimize on the job
Eligible(j) == ~Truthy(completed(j))

\* how the last run of optimize on job j ended, None before the first
LastExit(j) == IF Len(exits[j]) = 0 THEN None ELSE exits[j][Len(exits[j])]

\* the run of optimize on job j ends: the locals of the call are gone
Exit(j, how) ==
    /\ pc' = [pc EXCEPT ![j] = "idle"]
    /\ exits' = [exits EXCEPT ![j] = Append(@, how)]
    /\ i' = [i EXCEPT ![j] = 0]
    /\ opt' = [opt EXCEPT ![j] = NoOpt]
    /\ potential' = [potential EXCEPT ![j] = Unbound]
    /\ new_angle' = [new_angle EXCEPT ![j] = NoAngle]

RECURSIVE Sum(_, _)
\* the sum of f over the set S
Sum(f, S) == IF S = {} THEN 0
             ELSE LET x == CHOOSE x \in S : TRUE
                  IN  f[x] + Sum(f, S \ {x})

\* the runs of optimize started so far
TotalRuns == Sum(runs, DOMAIN runs)

\* `with job:`, line 61: optimize(job) is entered
Enter(j) ==
    /\ j \in store
    /\ pc[j] = "idle"
    /\ TotalRuns < MaxRuns
    /\ pc' = [pc EXCEPT ![j] = "entered"]
    /\ runs' = [runs EXCEPT ![j] = @ + 1]
    /\ runner' = [runner EXCEPT ![j] = "not_called"]
    /\ wrote' = [wrote EXCEPT ![j] = {}]
    /\ UNCHANGED <<mainVars, doc, i, opt, potential, new_angle, exits>>

\* `project.py run`: optimize runs on a job whose post-condition is unmet
Run(j) == Eligible(j) /\ Enter(j)

\* `project.py exec optimize`: optimize(job) called whatever the conditions
Exec(j) == Enter(j)

\* job.doc.setdefault("done", False) in place of line 62: a flag already in
\* the document is kept
SetDoneDefault(j) ==
    /\ pc[j] = "entered"
    /\ doc' = [doc EXCEPT ![j] =
                  IF "done" \in DOMAIN @ THEN @ ELSE DictSet(@, "done", PyFalse)]
    /\ wrote' = [wrote EXCEPT ![j] = @ \cup {"done"}]
    /\ pc' = [pc EXCEPT ![j] = "construct"]
    /\ UNCHANGED <<mainVars, i, opt, potential, new_angle, runner,
                   exits, runs>>

\* line 62 left out: assembly starts without a write to the document
SetDoneFalseMissing(j) ==
    /\ pc[j] = "entered"
    /\ pc' = [pc EXCEPT ![j] = "construct"]
    /\ UNCHANGED <<mainVars, doc, wrote, i, opt, potential, new_angle,
                   runner, exits, runs>>

\* job.doc["done"] = False, line 62
SetDoneFalse(j) ==
    /\ pc[j] = "entered"
    /\ doc' = [doc EXCEPT ![j] = DictSet(@, "done", PyFalse)]
    /\ wrote' = [wrote EXCEPT ![j] = @ \cup {"done"}]
    /\ pc' = [pc EXCEPT ![j] = "construct"]
    /\ UNCHANGED <<mainVars, i, opt, potential, new_angle, runner,
                   exits, runs>>

\* opt = MSIBI(...), lines 64-71
Construct(j) ==
    /\ pc[j] = "construct"
    /\ IF ConstructorKeys \subseteq DOMAIN j
          /\ "integrator_kwargs" \in DOMAIN doc[j]
       THEN /\ opt' = [opt EXCEPT ![j] = NewOpt]
            /\ pc' = [pc EXCEPT ![j] = "states"]
            /\ i' = [i EXCEPT ![j] = 1]
            /\ UNCHANGED <<potential, new_angle, exits>>
       ELSE Exit(j, "AttributeError")
    /\ UNCHANGED <<mainVars, doc, runner, wrote, runs>>

\* State(...) of a state entry, lines 75-87
State(state, ws) ==
    [name |-> state["name"], kT |-> state["kT"],
     traj_file |-> <<ws, "..", "..", state["target_trajectory"]>>,
     alpha |-> state["alpha"], _dir |-> ws]

\* for state in job.sp.states, lines 74-88
AddState(j) ==
    /\ pc[j] = "states"
    /\ IF "states" \notin DOMAIN j
       THEN Exit(j, "AttributeError")
       ELSE IF i[j] > Len(j["states"])
       THEN /\ pc' = [pc EXCEPT ![j] = "pairs"]
            /\ i' = [i EXCEPT ![j] = 1]
            /\ UNCHANGED <<opt, potential, new_angle, exits>>
       ELSE LET state == j["states"][i[j]]
            IN  IF {"target_trajectory", "name", "kT", "alpha"}
                       \subseteq DOMAIN state
                THEN /\ opt' = [opt EXCEPT ![j].states =
                                   Append(@, State(state, "workspace"))]
                     /\ i' = [i EXCEPT ![j] = @ + 1]
                     /\ UNCHANGED <<pc, potential, new_angle, exits>>
                ELSE Exit(j, "KeyError")
    /\ UNCHANGED <<mainVars, doc, runner, wrote, runs>>

\* lines 92-98 with the family tested before the entry's own potential
PairPotentialFamilyFirst(pair, sp, prev, pot_r_set) ==
    IF "initial_potential" \notin DOMAIN sp
    THEN [error |-> "AttributeError", potential |-> prev]
    ELSE IF sp["initial_potential"] = "morse"
    THEN IF pot_r_set
         THEN [error |-> None, potential |-> morse("pot_r")]
         ELSE [error |-> "AttributeError", potential |-> prev]
    ELSE IF sp["initial_potential"] = "mie"
    THEN IF "potential_cutoff" \in DOMAIN sp
         THEN [error |-> None, potential |-> mie(sp["potential_cutoff"])]
         ELSE [error |-> "AttributeError", potential |-> prev]
    ELSE IF "potential" \in DOMAIN pair
    THEN [error |-> None, potential |-> Explicit(pair["potential"])]
    ELSE [error |-> None, potential |-> prev]

\* lines 92-98: the value of `potential` after the if statement, or the
\* error it raises; prev is the value the local had, pot_r_set tells
\* whether the optimizer already exposes pot_r
PairPotential(pair, sp, prev, pot_r_set) ==
    IF "potential" \in DOMAIN pair
    THEN [error |-> None, potential |-> Explicit(pair["potential"])]
    ELSE IF "initial_potential" \notin DOMAIN sp
    THEN [error |-> "AttributeError", potential |-> prev]
    ELSE IF sp["initial_potential"] = "morse"
    THEN IF pot_r_set
         THEN [error |-> None, potential |-> morse("pot_r")]
         ELSE [error |-> "AttributeError", potential |-> prev]
    ELSE IF sp["initial_potential"] = "mie"
    THEN IF "potential_cutoff" \in DOMAIN sp
         THEN [error |-> None, potential |-> mie(sp["potential_cutoff"])]
         ELSE [error |-> "AttributeError", potential |-> prev]
    ELSE [error |-> None, potential |-> prev]

\* Pair(...), lines 101-106: the error raised while the arguments are
\* evaluated, in their order, or None
PairError(pair, sp, pot) ==
    IF ~({"type1", "type2"} \subseteq DOMAIN pair) THEN "KeyError"
    ELSE IF pot.family = "unbound" THEN "UnboundLocalError"
    ELSE IF "head_correction" \notin DOMAIN sp THEN "AttributeError"
    ELSE None

\* Pair(...), lines 101-106
Pair(pair, sp, pot) ==
    [type1 |-> pair["type1"], type2 |-> pair["type2"], potential |-> pot,
     head_correction_form |-> sp["head_correction"]]

\* for pair in job.sp.pairs, lines 91-107
AddPair(j) ==
    /\ pc[j] = "pairs"
    /\ IF "pairs" \notin DOMAIN j
       THEN Exit(j, "AttributeError")
       ELSE IF i[j] > Len(j["pairs"])
       THEN /\ pc' = [pc EXCEPT ![j] = "bonds"]
            /\ i' = [i EXCEPT ![j] = 1]
            /\ UNCHANGED <<opt, potential, new_angle, exits>>
       ELSE \E pot_r_set \in BOOLEAN :
            LET pair == j["pairs"][i[j]]
                got == PairPotential(pair, j, potential[j], pot_r_set)
                err == IF got.error # None THEN got.error
                       ELSE PairError(pair, j, got.potential)
            IN  IF err # None
                THEN Exit(j, err)
                ELSE /\ potential' = [potential EXCEPT ![j] = got.potential]
                     /\ opt' = [opt EXCEPT ![j].pairs =
                                   Append(@, Pair(pair, j, got.potential))]
                     /\ i' = [i EXCEPT ![j] = @ + 1]
                     /\ UNCHANGED <<pc, new_angle, exits>>
    /\ UNCHANGED <<mainVars, doc, runner, wrote, runs>>

\* lines 112-114: the error raised while a bond entry is read, or None
BondError(bond) ==
    IF ~({"type1", "type2", "form"} \subseteq DOMAIN bond) THEN "KeyError"
    ELSE IF bond["form"] = "harmonic" /\ ~({"k", "r0"} \subseteq DOMAIN bond)
    THEN "KeyError"
    ELSE None

\* Bond(...) with the set_harmonic call of line 114 left out
BondNoParams(bond) ==
    [type1 |-> bond["type1"], type2 |-> bond["type2"], harmonic |-> EmptyDict]

\* Bond(...) and set_harmonic, lines 112-114
Bond(bond) ==
    [type1 |-> bond["type1"], type2 |-> bond["type2"],
     harmonic |-> IF bond["form"] = "harmonic"
                  THEN [k |-> bond["k"], r0 |-> bond["r0"]]
                  ELSE EmptyDict]

\* if job.sp.bonds is not None: for bond in job.sp.bonds, lines 109-116
AddBond(j) ==
    /\ pc[j] = "bonds"
    /\ IF "bonds" \notin DOMAIN j
       THEN Exit(j, "AttributeError")
       ELSE IF j["bonds"].isNone \/ i[j] > Len(j["bonds"].items)
       THEN /\ pc' = [pc EXCEPT ![j] = "angles"]
            /\ i' = [i EXCEPT ![j] = 1]
            /\ UNCHANGED <<opt, potential, new_angle, exits>>
       ELSE LET bond == j["bonds"].items[i[j]]
            IN  IF BondError(bond) # None
                THEN Exit(j, BondError(bond))
                ELSE /\ opt' = [opt EXCEPT ![j].bonds = Append(@, Bond(bond))]
                     /\ i' = [i EXCEPT ![j] = @ + 1]
                     /\ UNCHANGED <<pc, potential, new_angle, exits>>
    /\ UNCHANGED <<mainVars, doc, runner, wrote, runs>>

\* lines 121-127: the error raised while an angle entry is read, or None
AngleError(angle) ==
    IF ~({"type1", "type2", "type3", "form"} \subseteq DOMAIN angle)
    THEN "KeyError"
    ELSE IF angle["form"] = "harmonic"
            /\ ~({"k", "theta0"} \subseteq DOMAIN angle)
    THEN "KeyError"
    ELSE None

\* Angle(...) and set_harmonic, lines 121-127
Angle(angle) ==
    [bound |-> TRUE, type1 |-> angle["type1"], type2 |-> angle["type2"],
     type3 |-> angle["type3"],
     harmonic |-> IF angle["form"] = "harmonic"
                  THEN [k |-> angle["k"], theta0 |-> angle["theta0"]]
                  ELSE EmptyDict]

\* if job.sp.angles is not None: for angle in job.sp.angles, lines 118-127;
\* the loop body assigns new_angle and calls nothing on opt
AddAngle(j) ==
    /\ pc[j] = "angles"
    /\ IF "angles" \notin DOMAIN j
       THEN Exit(j, "AttributeError")
       ELSE IF j["angles"].isNone \/ i[j] > Len(j["angles"].items)
       THEN /\ pc' = [pc EXCEPT ![j] = "call"]
            /\ i' = [i EXCEPT ![j] = 0]
            /\ UNCHANGED <<opt, potential, new_angle, exits>>
       ELSE LET angle == j["angles"].items[i[j]]
            IN  IF AngleError(angle) # None
                THEN Exit(j, AngleError(angle))
                ELSE /\ new_angle' = [new_angle EXCEPT ![j] = Angle(angle)]
                     /\ i' = [i EXCEPT ![j] = @ + 1]
                     /\ UNCHANGED <<pc, opt, potential, exits>>
    /\ UNCHANGED <<mainVars, doc, runner, wrote, runs>>

\* opt.optimize_pairs(...) moved up into the loops: called wherever the
\* assembly stands
CallOptimizePairsEarly(j) ==
    /\ pc[j] \in {"states", "pairs", "bonds", "angles", "call"}
    /\ IF CallKeys \subseteq DOMAIN j
       THEN /\ runner' = [runner EXCEPT ![j] = "running"]
            /\ pc' = [pc EXCEPT ![j] = "running"]
            /\ UNCHANGED <<i, opt, potential, new_angle, exits>>
       ELSE /\ Exit(j, "AttributeError")
            /\ UNCHANGED runner
    /\ UNCHANGED <<mainVars, doc, wrote, runs>>

\* opt.optimize_pairs(...), lines 129-138: the arguments are evaluated and
\* the Runner is entered
CallOptimizePairs(j) ==
    /\ pc[j] = "call"
    /\ IF CallKeys \subseteq DOMAIN j
       THEN /\ runner' = [runner EXCEPT ![j] = "running"]
            /\ pc' = [pc EXCEPT ![j] = "running"]
            /\ UNCHANGED <<i, opt, potential, new_angle, exits>>
       ELSE /\ Exit(j, "AttributeError")
            /\ UNCHANGED runner
    /\ UNCHANGED <<mainVars, doc, wrote, runs>>

\* opt.dr and opt.pot_r once optimize_pairs returned: the results of the
\* call, told apart by the number of the run that made it
Results(o, call) == [o EXCEPT !.dr = <<"dr", call>>,
                              !.pot_r = <<"pot_r", call>>]

\* optimize_pairs returns, line 138
RunnerReturns(j) ==
    /\ pc[j] = "running"
    /\ runner' = [runner EXCEPT ![j] = "returned"]
    /\ opt' = [opt EXCEPT ![j] = Results(@, runs[j])]
    /\ pc' = [pc EXCEPT ![j] = "write_dr"]
    /\ UNCHANGED <<mainVars, doc, i, potential, new_angle, exits,
                   wrote, runs>>

\* lines 140-142 in a finally block: the flag is written although
\* optimize_pairs raised
RunnerRaisesFinally(j) ==
    /\ pc[j] = "running"
    /\ runner' = [runner EXCEPT ![j] = "raised"]
    /\ doc' = [doc EXCEPT ![j] = DictSet(@, "done", PyTrue)]
    /\ Exit(j, "RunnerError")
    /\ UNCHANGED <<mainVars, wrote, runs>>

\* optimize_pairs raises, line 138: the error leaves optimize
RunnerRaises(j) ==
    /\ pc[j] = "running"
    /\ runner' = [runner EXCEPT ![j] = "raised"]
    /\ Exit(j, "RunnerError")
    /\ UNCHANGED <<mainVars, doc, wrote, runs>>

\* line 142 moved before line 140: the flag is written first
WriteDrDoneFirst(j) ==
    /\ pc[j] = "write_dr"
    /\ doc' = [doc EXCEPT ![j] =
                  DictSet(DictSet(@, "done", PyTrue), "dr", opt[j].dr)]
    /\ wrote' = [wrote EXCEPT ![j] = @ \cup {"dr"}]
    /\ pc' = [pc EXCEPT ![j] = "write_pot_r"]
    /\ UNCHANGED <<mainVars, i, opt, potential, new_angle, runner,
                   exits, runs>>

\* job.doc["dr"] = opt.dr, line 140
WriteDr(j) ==
    /\ pc[j] = "write_dr"
    /\ doc' = [doc EXCEPT ![j] = DictSet(@, "dr", opt[j].dr)]
    /\ wrote' = [wrote EXCEPT ![j] = @ \cup {"dr"}]
    /\ pc' = [pc EXCEPT ![j] = "write_pot_r"]
    /\ UNCHANGED <<mainVars, i, opt, potential, new_angle, runner,
                   exits, runs>>

\* line 141 left out: pot_r is not written
WritePotRSkipped(j) ==
    /\ pc[j] = "write_pot_r"
    /\ pc' = [pc EXCEPT ![j] = "write_done"]
    /\ UNCHANGED <<mainVars, doc, wrote, i, opt, potential, new_angle, runner,
                   exits, runs>>

\* job.doc["pot_r"] = opt.pot_r, line 141
WritePotR(j) ==
    /\ pc[j] = "write_pot_r"
    /\ doc' = [doc EXCEPT ![j] = DictSet(@, "pot_r", opt[j].pot_r)]
    /\ wrote' = [wrote EXCEPT ![j] = @ \cup {"pot_r"}]
    /\ pc' = [pc EXCEPT ![j] = "write_done"]
    /\ UNCHANGED <<mainVars, i, opt, potential, new_angle, runner,
                   exits, runs>>

\* line 142 writing the flag into the document of every job of the project
WriteDoneAllJobs(j) ==
    /\ pc[j] = "write_done"
    /\ doc' = [k \in DOMAIN doc |-> DictSet(doc[k], "done", PyTrue)]
    /\ wrote' = [wrote EXCEPT ![j] = @ \cup {"done"}]
    /\ Exit(j, "completed")
    /\ UNCHANGED <<mainVars, runner, runs>>

\* job.doc["done"] = True, line 142, and the end of the with block
WriteDone(j) ==
    /\ pc[j] = "write_done"
    /\ doc' = [doc EXCEPT ![j] = DictSet(@, "done", PyTrue)]
    /\ wrote' = [wrote EXCEPT ![j] = @ \cup {"done"}]
    /\ Exit(j, "completed")
    /\ UNCHANGED <<mainVars, runner, runs>>

\* the process running optimize(job) is terminated from outside
Terminate(j) ==
    /\ pc[j] # "idle"
    /\ Exit(j, "killed")
    /\ UNCHANGED <<mainVars, doc, runner, wrote, runs>>

\* job.doc.integrator_kwargs, line 66: the key is read and never written
\* by the repository; the operator of the data space sets it by hand
SetIntegratorKwargs(j) ==
    /\ j \in store
    /\ pc[j] = "idle"
    /\ "integrator_kwargs" \notin DOMAIN doc[j]
    /\ doc' = [doc EXCEPT ![j] = DictSet(@, "integrator_kwargs", "{}")]
    /\ UNCHANGED <<mainVars, pc, i, opt, potential, new_angle, runner,
                   exits, wrote, runs>>

Next ==
    \/ MainStart
    \/ MainInitJob
    \/ MainWrite
    \/ \E j \in Jobs : Run(j)
    \/ \E j \in Jobs : Exec(j)
    \/ \E j \in Jobs : SetDoneFalse(j)
    \/ \E j \in Jobs : Construct(j)
    \/ \E j \in Jobs : AddState(j)
    \/ \E j \in Jobs : AddPair(j)
    \/ \E j \in Jobs : AddBond(j)
    \/ \E j \in Jobs : AddAngle(j)
    \/ \E j \in Jobs : CallOptimizePairs(j)
    \/ \E j \in Jobs : RunnerReturns(j)
    \/ \E j \in Jobs : RunnerRaises(j)
    \/ \E j \in Jobs : WriteDr(j)
    \/ \E j \in Jobs : WritePotR(j)
    \/ \E j \in Jobs : WriteDone(j)
    \/ \E j \in Jobs : Terminate(j)
    \/ \E j \in Jobs : SetIntegratorKwargs(j)

----------------------------------------------------------------------------
(* The data spaces optimize runs on: the shipped table with its lists      *)
(* filled in, as the comments of get_parameters ask.                        *)

StateA == [name |-> "A", kT |-> "1.0", target_trajectory |-> "ref.gsd",
           alpha |-> "1.0"]
\* a state whose target trajectory is not among Files
StateB == [name |-> "B", kT |-> "2.0", target_trajectory |-> "missing.gsd",
           alpha |-> "0.5"]
\* the files found two levels above the job workspaces, lines 75-79
Files == {"ref.gsd"}
PairAA == [type1 |-> "A", type2 |-> "A"]
PairAB == [type1 |-> "A", type2 |-> "B", potential |-> "table_AB"]
BondHarmonic == [type1 |-> "A", type2 |-> "B", form |-> "harmonic",
                 k |-> "100", r0 |-> "1.1"]
BondOther == [type1 |-> "A", type2 |-> "A", form |-> "fene"]
AngleHarmonic == [type1 |-> "A", type2 |-> "B", type3 |-> "A",
                  form |-> "harmonic", k |-> "10", theta0 |-> "2.0"]
AngleOther == [type1 |-> "A", type2 |-> "A", type3 |-> "A",
               form |-> "cosine"]

NoList == [isNone |-> TRUE, items |-> <<>>]
List(items) == [isNone |-> FALSE, items |-> items]

\* parameters[name] = values on a table: the key keeps its place, a new key
\* goes last
Edit(table, name, values) ==
    IF \E a \in 1..Len(table) : table[a].name = name
    THEN [a \in 1..Len(table) |->
            IF table[a].name = name
            THEN [name |-> name, values |-> values] ELSE table[a]]
    ELSE Append(table, [name |-> name, values |-> values])

\* the choices made when the table is filled in
Configs ==
    [potential_cutoff : {<<"5.0">>, <<"5.0", "2.5">>, <<"5.0", "5.0">>},
     initial_potential : {<<"mie">>, <<"morse">>, <<"lj">>, <<"mie", "lj">>},
     states : {<<StateA>>, <<StateA, StateB>>},
     pairs : {<<PairAA>>, <<PairAB, PairAA>>},
     bonds : {NoList, List(<<BondOther, BondHarmonic>>)},
     angles : {NoList, List(<<AngleHarmonic, AngleOther>>)},
     extra : SUBSET {"head_correction", "r_min"}]

\* the table filled in with the choices c
Configure(c) ==
    LET t1 == Edit(ShippedParameters, "integrator", <<"hoomd.md.methods.NVT">>)
        t2 == Edit(t1, "integrator_kwargs", <<"{}">>)
        t3 == Edit(t2, "potential_cutoff", c.potential_cutoff)
        t4 == Edit(t3, "initial_potential", c.initial_potential)
        t5 == Edit(t4, "states", <<c.states>>)
        t6 == Edit(t5, "pairs", <<c.pairs>>)
        t7 == Edit(t6, "bonds", <<c.bonds>>)
        t8 == Edit(t7, "angles", <<c.angles>>)
        t9 == IF "head_correction" \in c.extra
              THEN Edit(t8, "head_correction", <<"linear">>) ELSE t8
    IN  IF "r_min" \in c.extra THEN Edit(t9, "r_min", <<"0.0">>) ELSE t9

\* a sweep over more than one value is made on a complete table only
Swept(c) == Len(c.potential_cutoff) + Len(c.initial_potential) > 2

\* a second state is declared on a complete table of one job only
TwoStates(c) == Len(c.states) > 1

SweepConfigs ==
    {c \in Configs :
        /\ Swept(c) =>
            /\ Len(c.potential_cutoff) + Len(c.initial_potential) = 3
            /\ c.extra = {"head_correction", "r_min"}
            /\ c.pairs = <<PairAB, PairAA>>
            /\ c.bonds = NoList
            /\ c.angles = NoList
            /\ ~TwoStates(c)
        /\ TwoStates(c) =>
            /\ c.initial_potential = <<"mie">>
            /\ c.extra = {"head_correction", "r_min"}
            /\ c.pairs = <<PairAA>>
            /\ c.angles = NoList}

Init ==
    \/ \E c \in SweepConfigs : InitOf(Configure(c))
    \/ InitOf(Edit(Edit(ShippedParameters, "integrator", <<"NVT">>),
                   "integrator_kwargs", <<"{}">>))
    \/ InitOf(ShippedParameters)

\* init.py and project.py on a filled-in or the shipped parameter table
Spec == Init /\ [][Next]_vars

----------------------------------------------------------------------------
(* The completion flag. *)

\* the run of optimize on job j is between line 62 and the return of
\* optimize_pairs
Assembling(j) ==
    pc[j] \in {"construct", "states", "pairs", "bonds", "angles", "call",
               "running"}

\* the errors optimize raises before optimize_pairs is entered
AssemblyErrors == {"AttributeError", "KeyError", "UnboundLocalError"}

\* C1: a step that makes the done flag of a job true is taken by a run of
\* optimize on that job whose optimize_pairs call has returned: never by a
\* run that has not called it, is still in it, or saw it raise.
C1_DoneOnlyAfterRunnerReturned ==
    [][\A j \in Jobs :
          (DictGet(doc'[j], "done") = PyTrue /\ DictGet(doc[j], "done") # PyTrue)
              => (pc[j] # "idle" /\ runner[j] = "returned")]_vars

\* a job completed by a run whose optimize_pairs call returned
C1_Witness ==
    \E j \in Jobs :
        /\ completed(j) = PyTrue
        /\ LastExit(j) = "completed"
        /\ runner[j] = "returned"

\* C2: from line 62 until optimize_pairs returns the document reads
\* done = False, also when an earlier run left done = True, and the
\* optimizer is not constructed before the run has written the flag.
C2_InProgressWhileAssembling ==
    \A j \in Jobs :
        /\ Assembling(j) => completed(j) = PyFalse
        /\ opt[j].built => "done" \in wrote[j]
        /\ pc[j] = "entered" => ~opt[j].built

\* a run that entered a job completed by an earlier run and is now in
\* optimize_pairs
C2_Witness ==
    \E j \in Jobs :
        /\ pc[j] = "running"
        /\ LastExit(j) = "completed"
        /\ completed(j) = PyFalse
        /\ Len(opt[j].pairs) > 0

\* C3: the workflow starts optimize on an idle job exactly when its done
\* flag is not true: a job with done = True is not run again, a job with
\* no done key or with done = False is.
C3_CompletedJobsAreSkipped ==
    \A j \in Jobs :
        /\ completed(j) = PyTrue => ~ENABLED Run(j)
        /\ (j \in store /\ pc[j] = "idle" /\ TotalRuns < MaxRuns
               /\ DictGet(doc[j], "done") \in {None, PyFalse})
              => ENABLED Run(j)

\* a completed, idle job while a further run of optimize could still be
\* started: optimize can be called on it, the workflow does not
C3_Witness ==
    /\ TotalRuns < MaxRuns
    /\ \E j \in Jobs : pc[j] = "idle" /\ completed(j) = PyTrue /\ ENABLED Exec(j)

\* C4: a run of optimize that ended with an error of assembly did not
\* enter optimize_pairs, left done = False and wrote neither dr nor pot_r.
C4_AssemblyErrorLeavesInProgress ==
    \A j \in Jobs :
        (pc[j] = "idle" /\ LastExit(j) \in AssemblyErrors)
            => /\ runner[j] = "not_called"
               /\ completed(j) = PyFalse
               /\ wrote[j] \cap {"dr", "pot_r"} = {}

\* a run that ended on a pair entry with no potential to give it
C4_Witness ==
    \E j \in Jobs :
        /\ pc[j] = "idle"
        /\ LastExit(j) = "UnboundLocalError"
        /\ completed(j) = PyFalse

\* C5: after optimize_pairs raised, or the run was terminated after line 62,
\* the document reads done = False, the job is idle and the workflow may
\* run it again; a run starts with no optimizer and no potential.
C5_FailedRunLeavesJobEligible ==
    \A j \in Jobs :
        /\ (pc[j] = "idle"
               /\ \/ LastExit(j) = "RunnerError"
                  \/ LastExit(j) = "killed" /\ "done" \in wrote[j])
              => /\ completed(j) = PyFalse
                 /\ TotalRuns < MaxRuns => ENABLED Run(j)
        /\ pc[j] \in {"entered", "construct"}
              => /\ opt[j] = NoOpt
                 /\ potential[j] = Unbound
                 /\ runner[j] = "not_called"

\* a job completed by a run that followed a run in which optimize_pairs
\* raised or which was terminated
C5_Witness ==
    \E j \in Jobs :
        /\ Len(exits[j]) = 2
        /\ exits[j][1] \in {"RunnerError", "killed"}
        /\ exits[j][2] = "completed"
        /\ completed(j) = PyTrue
        /\ doc[j]["dr"] = <<"dr", 2>>

----------------------------------------------------------------------------
(* The assembled problem. *)

\* C6: every Pair added for an entry without a potential carries the
\* potential of the family initial_potential names, Mie from the cutoff or
\* Morse; no Pair is added for such an entry under any other family.
C6_ImplicitPairsGetFamilyPotential ==
    \A j \in Jobs :
        \A k \in 1..Len(opt[j].pairs) :
            "potential" \notin DOMAIN j["pairs"][k]
                => \/ /\ j["initial_potential"] = "mie"
                      /\ opt[j].pairs[k].potential = mie(j["potential_cutoff"])
                   \/ /\ j["initial_potential"] = "morse"
                      /\ opt[j].pairs[k].potential.family = "morse"

\* C10: the optimizer handed to optimize_pairs holds one Angle per declared
\* angle entry when angles is not None, and none when it is None.
C10_DeclaredAnglesReachRunner ==
    \A j \in Jobs :
        pc[j] = "running"
            => opt[j].angles =
                   IF j["angles"].isNone THEN <<>>
                   ELSE [k \in 1..Len(j["angles"].items) |->
                            Angle(j["angles"].items[k])]

----------------------------------------------------------------------------
(* The parameter space and the data space. *)

\* a parameter of the table has no candidate value
EmptyCandidateList ==
    \E a \in 1..Len(parameters) : Len(parameters[a].values) = 0

\* main() ran to its end
MainFinished == mainPc = "idle" /\ mainRuns > 0

\* C7: with an empty candidate list get_parameters does not return an
\* empty list of combinations to main, and main does not end with no job.
C7_EmptyListIsFlagged ==
    EmptyCandidateList
        => /\ ~(mainPc = "loop" /\ Len(param_combinations) = 0)
           /\ ~(MainFinished /\ store = {})

RECURSIVE ProductOfLengths(_, _)
\* n_a * ... * n_k for the candidate lists a..k of the table
ProductOfLengths(table, a) ==
    IF a > Len(table) THEN 1
    ELSE Len(table[a].values) * ProductOfLengths(table, a + 1)

\* the candidate of parameter a in combination c: the digit of c - 1 in the
\* mixed radix n_1 .. n_k
CandidateOf(table, c, a) ==
    table[a].values[(((c - 1) \div ProductOfLengths(table, a + 1))
                         % Len(table[a].values)) + 1]

\* no candidate list of the table holds a value twice
NoDuplicates(table) ==
    \A a \in 1..Len(table) :
        \A x, y \in 1..Len(table[a].values) :
            table[a].values[x] = table[a].values[y] => x = y

\* C8: get_parameters returns the names in declared order and n_1*...*n_k
\* combinations, one per assignment of a candidate to every parameter, in
\* declared order; they differ pairwise when no candidate is listed twice,
\* and zipped with the names each gives a statepoint over exactly the names.
C8_FullCartesianProduct ==
    mainPc = "loop"
        => /\ param_names = Keys(parameters)
           /\ Len(param_combinations) = ProductOfLengths(parameters, 1)
           /\ \A c \in 1..Len(param_combinations) :
                 /\ Len(param_combinations[c]) = Len(parameters)
                 /\ \A a \in 1..Len(parameters) :
                       param_combinations[c][a] = CandidateOf(parameters, c, a)
                 /\ DOMAIN DictZip(param_names, param_combinations[c])
                       = {parameters[a].name : a \in 1..Len(parameters)}
           /\ NoDuplicates(parameters)
                 => \A c, d \in 1..Len(param_combinations) :
                        param_combinations[c] = param_combinations[d] => c = d

\* main() in its loop over the four combinations of two parameters with
\* two candidates each
C8_Witness ==
    /\ mainPc = "loop"
    /\ idx > 1
    /\ Len(parameters) = 2
    /\ Len(param_combinations) = 4
    /\ NoDuplicates(parameters)

\* a step of main()
MainStep == idx' # idx \/ mainPc' # mainPc

\* C9: a job is in the store once main() opened its statepoint and its
\* workspace is made once; after a run of main() the store holds the
\* statepoints of the space; a step of main() leaves the document and the
\* workspace of every job that exists as they are, and a step of a repeated
\* run creates no job.
C9_InitializationIsIdempotent ==
    /\ [](/\ \A j \in Jobs : inits[j] = IF j \in store THEN 1 ELSE 0
          /\ store \subseteq Jobs
          /\ MainFinished => store = Jobs)
    /\ [][MainStep =>
             /\ \A j \in store : /\ j \in store'
                                 /\ doc'[j] = doc[j]
                                 /\ inits'[j] = inits[j]
             /\ mainRuns' > 1 => store' = store]_vars

\* the second run of main() ended on a data space in which optimize had
\* written to the document of a job
C9_Witness ==
    /\ MainFinished
    /\ mainRuns = 2
    /\ \E j \in store : "done" \in DOMAIN doc[j]

----------------------------------------------------------------------------
(* The bond loop. *)

\* the bond loop of lines 109-116 is behind the run of j
BondsDone(j) ==
    pc[j] \in {"angles", "call", "running", "write_dr", "write_pot_r",
               "write_done"}

\* C11: with bonds None no bond reaches the optimizer; otherwise the optimizer
\* holds one bond per entry, in the order of the list (the first i-1 entries
\* while the loop runs, all of them behind it); the bond of a "harmonic" entry
\* carries the entry's k and r0, the bond of any other form is added without
\* parameters.
C11_OneBondPerEntry ==
    \A j \in Jobs :
        (opt[j].built /\ "bonds" \in DOMAIN j) =>
            LET decl == j["bonds"]
                added == opt[j].bonds
            IN  /\ decl.isNone => added = <<>>
                /\ Len(added) <= Len(decl.items)
                /\ pc[j] = "bonds" /\ ~decl.isNone => Len(added) = i[j] - 1
                /\ BondsDone(j) => Len(added) = Len(decl.items)
                /\ \A b \in 1..Len(added) :
                       /\ added[b].type1 = decl.items[b]["type1"]
                       /\ added[b].type2 = decl.items[b]["type2"]
                       /\ IF decl.items[b]["form"] = "harmonic"
                          THEN added[b].harmonic =
                                   [k |-> decl.items[b]["k"],
                                    r0 |-> decl.items[b]["r0"]]
                          ELSE added[b].harmonic = EmptyDict

\* a run has passed the bond loop with a parameterless bond followed by a
\* harmonic one
C11_Witness ==
    \E j \in Jobs :
        /\ pc[j] = "running"
        /\ Len(opt[j].bonds) = 2
        /\ opt[j].bonds[1].harmonic = EmptyDict
        /\ opt[j].bonds[2].harmonic = [k |-> "100", r0 |-> "1.1"]

----------------------------------------------------------------------------
(* The target trajectories. *)

\* C12: no state whose target trajectory does not exist two levels above the
\* job workspace is ever added to the optimizer (assembly fails on the entry
\* instead), so every state the optimizer holds points at an existing file.
C12_MissingTrajectoryIsNeverAdded ==
    \A j \in Jobs :
        \A s \in 1..Len(opt[j].states) :
            opt[j].states[s].traj_file[4] \in Files

----------------------------------------------------------------------------
(* Explicit pair potentials. *)

\* C13: every pair the optimizer holds whose entry declares a potential carries
\* exactly that potential, whatever initial_potential names, an unrecognized
\* family included.
C13_ExplicitPotentialIsKept ==
    \A j \in Jobs :
        \A p \in 1..Len(opt[j].pairs) :
            "potential" \in DOMAIN j["pairs"][p] =>
                opt[j].pairs[p].potential =
                    [family |-> "explicit", arg |-> j["pairs"][p]["potential"]]

\* a pair with an explicit potential has been added under a family that is
\* neither mie nor morse
C13_Witness ==
    \E j \in Jobs :
        /\ j["initial_potential"] \notin {"mie", "morse"}
        /\ Len(opt[j].pairs) >= 1
        /\ "potential" \in DOMAIN j["pairs"][1]
        /\ opt[j].pairs[1].potential.arg = "table_AB"

----------------------------------------------------------------------------
(* The one-job scenario. *)

\* the table with potential_cutoff [5.0], one state A (kT 1.0, ref.gsd,
\* alpha 1.0), one pair A-A, bonds None, angles None, initial_potential "mie"
\* and the names get_parameters declares
ScenarioParameters ==
    Configure([potential_cutoff |-> <<"5.0">>, initial_potential |-> <<"mie">>,
               states |-> <<StateA>>, pairs |-> <<PairAA>>, bonds |-> NoList,
               angles |-> NoList, extra |-> {}])

\* C14: on the scenario table main creates exactly one job, no run of
\* optimize on it ends in an error before the Runner is called, and the run
\* reaches the optimize_pairs call with one state, one pair carrying a Mie
\* potential of cutoff 5.0, no bond and no angle.
C14_ScenarioReachesRunner ==
    parameters = ScenarioParameters =>
        /\ MainFinished => Cardinality(store) = 1
        /\ \A j \in Jobs :
               /\ \A e \in 1..Len(exits[j]) :
                      exits[j][e] \in {"completed", "RunnerError", "killed"}
               /\ pc[j] \in {"call", "running"} =>
                      /\ Len(opt[j].states) = 1
                      /\ Len(opt[j].pairs) = 1
                      /\ opt[j].pairs[1].potential = mie("5.0")
                      /\ opt[j].bonds = <<>>
                      /\ opt[j].angles = <<>>

----------------------------------------------------------------------------
(* Jobs under interleaving. *)

\* the step belongs to the run of optimize on job j
StepOf(j) ==
    \/ pc'[j] # pc[j]
    \/ i'[j] # i[j]
    \/ opt'[j] # opt[j]
    \/ potential'[j] # potential[j]
    \/ new_angle'[j] # new_angle[j]

\* C15: a step of the run of optimize on one job leaves the document (done,
\* dr, pot_r and every other key), the statepoint and the run of every other
\* job unchanged, however the runs are interleaved.
C15_JobsAreIndependent ==
    [][\A j \in Jobs :
          StepOf(j) =>
              \A k \in Jobs \ {j} :
                  /\ doc'[k] = doc[k]
                  /\ k \in DOMAIN doc'
                  /\ ~StepOf(k)
                  /\ runner'[k] = runner[k]
                  /\ wrote'[k] = wrote[k]
                  /\ exits'[k] = exits[k]]_vars

\* two runs are interleaved: one job is about to write its flag while the
\* run on another job is in its pair loop with its own flag False
C15_Witness ==
    \E j, k \in Jobs :
        /\ j # k
        /\ pc[j] = "write_done"
        /\ pc[k] = "pairs"
        /\ DictGet(doc[k], "done") = PyFalse
        /\ "dr" \in DOMAIN doc[j]

----------------------------------------------------------------------------
(* The order of the steps of a run. *)

\* the number of entries an optional list declares
Declared(list) == IF list.isNone THEN 0 ELSE Len(list.items)

\* C16: within a run the steps come in the order done = False, optimizer
\* construction, all states, all pairs, the bonds, the angles, optimize_pairs,
\* the result writes: a later step has acted only when the earlier ones are
\* complete, and optimize_pairs is invoked at most once per run, from the
\* statement behind the angle loop, with every declared state, pair and bond
\* added.
C16_StepsInOrder ==
    /\ [](\A j \in Jobs :
            /\ opt[j].built => "done" \in wrote[j]
            /\ Len(opt[j].states) > 0 => opt[j].built
            /\ Len(opt[j].pairs) > 0 =>
                   Len(opt[j].states) = Len(j["states"])
            /\ Len(opt[j].bonds) > 0 =>
                   Len(opt[j].pairs) = Len(j["pairs"])
            /\ new_angle[j].bound =>
                   Len(opt[j].bonds) = Declared(j["bonds"])
            /\ pc[j] \in {"running", "write_dr", "write_pot_r", "write_done"} =>
                   /\ runner[j] # "not_called"
                   /\ Len(opt[j].states) = Len(j["states"])
                   /\ Len(opt[j].pairs) = Len(j["pairs"])
                   /\ Len(opt[j].bonds) = Declared(j["bonds"])
                   /\ Declared(j["angles"]) > 0 => new_angle[j].bound
            /\ pc[j] \notin {"idle", "running", "write_dr", "write_pot_r",
                              "write_done"} => runner[j] = "not_called"
            /\ wrote[j] \cap {"dr", "pot_r"} # {} => runner[j] = "returned"
            /\ "pot_r" \in wrote[j] => "dr" \in wrote[j])
    /\ [][\A j \in Jobs :
             runner'[j] = "running" /\ runner[j] # "running" =>
                 /\ runner[j] = "not_called"
                 /\ pc[j] = "call"]_vars

\* a run with two pairs, two bonds and angles declared is behind the
\* optimize_pairs call
C16_Witness ==
    \E j \in Jobs :
        /\ pc[j] = "write_dr"
        /\ Len(opt[j].states) = 1
        /\ Len(opt[j].pairs) = 2
        /\ Len(opt[j].bonds) = 2
        /\ new_angle[j].bound

----------------------------------------------------------------------------
(* The results behind the completion flag. *)

\* the number of the last run on j in which optimize_pairs returned and the
\* results were written, 0 if there is none
LastCompleted(j) ==
    CHOOSE n \in 0..Len(exits[j]) :
        /\ n > 0 => exits[j][n] = "completed"
        /\ \A m \in (n + 1)..Len(exits[j]) : exits[j][m] # "completed"

\* C17: whenever done is True in a job document, dr and pot_r are present
\* and are the values the Runner exposed in the call that completed last on
\* the job (no later run has reached the Runner: each was ended before line
\* 62); within a run dr and pot_r are written only after optimize_pairs
\* returned, and done is set True only after both.
C17_DoneImpliesLastResults ==
    \A j \in Jobs :
        /\ DictGet(doc[j], "done") = PyTrue =>
               /\ {"dr", "pot_r"} \subseteq DOMAIN doc[j]
               /\ LastCompleted(j) > 0
               /\ \A m \in (LastCompleted(j) + 1)..Len(exits[j]) :
                      exits[j][m] = "killed"
               /\ pc[j] \in {"idle", "entered"}
               /\ doc[j]["dr"] = <<"dr", LastCompleted(j)>>
               /\ doc[j]["pot_r"] = <<"pot_r", LastCompleted(j)>>
        /\ wrote[j] \cap {"dr", "pot_r"} # {} => runner[j] = "returned"
        /\ pc[j] = "write_done" => {"dr", "pot_r"} \subseteq wrote[j]

\* a job completed twice: its document holds the results of the second call
C17_Witness ==
    \E j \in Jobs :
        /\ DictGet(doc[j], "done") = PyTrue
        /\ exits[j] = <<"completed", "completed">>
        /\ doc[j]["dr"] = <<"dr", 2>>
        /\ doc[j]["pot_r"] = <<"pot_r", 2>>

----------------------------------------------------------------------------
(* The statepoints summary. *)

\* C18: in a run of main() the summary is not written while the loop runs,
\* it is written once, behind the loop, when a job is in the store for every
\* statepoint of the space, it enumerates every statepoint, and main() ends
\* with the write, so no job is created after it.
C18_SummaryWrittenOnceAfterAllJobs ==
    /\ writes <= 1
    /\ mainPc = "loop" => writes = 0
    /\ writes = 1 => /\ mainPc = "idle"
                     /\ store = Jobs
                     /\ summary = Jobs
    /\ MainFinished => writes = 1

\* the first run of main() ended on a space of more than one statepoint
C18_Witness ==
    /\ MainFinished
    /\ mainRuns = 1
    /\ writes = 1
    /\ Cardinality(summary) > 1

----------------------------------------------------------------------------
(* The values optimize reads. *)

\* the statepoint fields optimize reads: job.sp.<name> in lines 65-136
SpReads ==
    ConstructorKeys \cup CallKeys
        \cup {"states", "pairs", "initial_potential", "potential_cutoff",
               "head_correction", "bonds", "angles"}

\* the table declares the names get_parameters declares, and no other
DeclaredNames == Keys(parameters) = Keys(ShippedParameters)

\* C19: on a space made from the names get_parameters declares, every
\* statepoint field optimize reads is a key of every job main() created, the
\* document key integrator_kwargs is in the document when line 66 reads it,
\* and so no run ends in an AttributeError.
C19_EveryReadIsDefined ==
    DeclaredNames =>
        \A j \in store :
            /\ SpReads \subseteq DOMAIN j
            /\ pc[j] = "construct" => "integrator_kwargs" \in DOMAIN doc[j]
            /\ \A e \in 1..Len(exits[j]) : exits[j][e] # "AttributeError"

=============================================================================
